---- MODULE Spec2Model ----
(***************************************************************************)
(* On-call escalation of tg_alertbot_v2: the schedule service of package   *)
(* repo (schedule file, success stamps, mute), the schedule of package app *)
(* and the alert use case that places the outbound call.                   *)
(*                                                                         *)
(* Instants are seconds since a midnight UTC.  A stored time of day is the *)
(* pair <<hour, minute>> that the text "HH:MM" holds; <<hour, minute, 1>>   *)
(* is the text "H:MM", its hour written with one digit.                    *)
(***************************************************************************)
EXTENDS Integers, Sequences, FiniteSets, Bags, TLC

VARIABLES
    file,             \* the schedules the schedule file holds when it is a JSON array
    fileState,        \* the schedule file: absent, empty, garbage or a JSON array
    perm,             \* what the process may do with the schedule file: r, w, rw or none
    successfulCalls,  \* ScheduleService.successfulCalls: number -> instant
    callAttempts,     \* ScheduleService.callAttempts: number -> count
    muteUntil,        \* ScheduleService.muteUntil
    schedules,        \* package app: var schedules []Schedule
    now,              \* the wall clock, time.Now()
    localOffset,      \* UTC offset of the server's local zone, in seconds
    last,             \* the operation that ran last, with what it returned
    pending,          \* SendAlerts: the critical firing alerts still to escalate
    sent,             \* SendAlerts: the bag of SendMessage calls, chat and text
    calls,            \* SendAlerts: the numbers MakeCall submitted to the call provider
    trig,             \* the escalation of the alert handled last
    request,          \* HandleAlert: the body received last and the status answered
    zoneinfo,         \* whether time.LoadLocation finds Europe/Moscow
    pc,               \* where each goroutine serving a request is in ScheduleService
    bot,              \* TelegramBot: the configured chat IDs, and the calls of
                      \* Bot.Send made by the SendMessage that ran last
    alertChannel,     \* Lastver: the buffered channel of decoded batches
    serving,          \* Lastver: where each goroutine running alertHandler is
    worker,           \* Lastver: where each worker goroutine is
    processed,        \* Lastver: the processAlerts calls that returned, worker and request
    responses,        \* Lastver: request -> status answered, 0 while there is none
    adding            \* where each goroutine running AddSchedule is, and what it loaded

lastverVars == <<alertChannel, serving, worker, processed, responses>>

vars == <<file, fileState, perm, successfulCalls, callAttempts, muteUntil, schedules,
          now, localOffset, last, pending, sent, calls, trig, request, zoneinfo, pc,
          bot, lastverVars, adding>>

-----------------------------------------------------------------------------
(* Bounds of the model *)

MaxSchedules == 2
MaxTicks == 3
MaxBatch == 2
MaxUseCaseTicks == 2
MaxHandlers == 2
MaxMuteTicks == 5
maxMsgLength == 2      \* 4096 bytes in the source, scaled down
MaxMessageLen == 5
NumWorkers == 2        \* -num-workers, 5 unless given
ChannelCapacity == 1   \* 100 in the source, scaled down
MaxRequests == 3
MaxDayTicks == 16

(* Inputs *)

Phones == {"+1", "+2"}
Severities == {"Warning", "Critical", "Info", "warning", ""}
ChatIDs == {1, 2}
\* texts of at most MaxMessageLen bytes, each a letter or a line feed
Messages == UNION {[1..n -> {"a", "\n"}] : n \in 0..MaxMessageLen}
\* pairs of texts given as the warning and the critical chat ID
ChatIDTexts ==
    {<<<<"1", "2">>, <<"-", "1">>>>, <<<<>>, <<"x">>>>, <<<<"1", "x">>, <<"+", "2">>>>}
\* the Bot.Send call that fails during one SendMessage, 0 for none
Failures == 0..3
Windows ==
    {<<<<0, 30>>, <<1, 30>>>>, <<<<0, 0, 1>>, <<1, 30>>>>, <<<<1, 30>>, <<0, 30>>>>,
     <<<<24, 0>>, <<0, 30>>>>, <<<<0, 30>>, <<0, 60>>>>}
InitialInstants == {0, 30}
ClockSteps == {1800}
LocalOffsets == {0, 3600}
HookEvents == {"call_success", "call_failed"}
AppWindows == {<<<<0, 30>>, <<1, 30>>>>, <<<<1, 30>>, <<0, 30>>>>, <<<<0, 30>>, <<24, 0>>>>}
OtherPhone == "+9"
\* a window over midnight, a window of no length and a window within the day
DayWindows ==
    {<<<<22, 0>>, <<6, 0>>>>, <<<<12, 0>>, <<12, 0>>>>, <<<<6, 0>>, <<22, 0>>>>}
DaySteps == {5400}

-----------------------------------------------------------------------------
(* package time *)

Hour == 3600

\* time.Time{}: 0001-01-01 00:00, counted from 0000-01-01 00:00 (a leap year),
\* the day on which time.Parse("15:04", s) places a time of day.
ZeroTime == 366 * 24 * 3600

\* time.Parse("15:04", s): the instant on 0000-01-01, or an error and time.Time{}.
\* The hour is read from one or two digits, the minute from two.
Parse1504(s) ==
    IF s[1] \in 0..23 /\ s[2] \in 0..59
    THEN [t |-> s[1] * 3600 + s[2] * 60, err |-> FALSE]
    ELSE [t |-> ZeroTime, err |-> TRUE]

\* t.Format("15:04") of the instant t read in a zone `offset` seconds east of UTC
Format1504(t, offset) ==
    <<((t + offset) \div 3600) % 24, ((t + offset) \div 60) % 60>>

After(t, u) == t > u
Before(t, u) == t < u

\* time.Since(t)
Since(t) == now - t

-----------------------------------------------------------------------------
(* package repo: schedule file and ScheduleService *)

NoNumber == ""
Nil == "nil"
ErrInvalidTime == "invalid time format, use HH:MM"
ErrNotFound == "no phone number found for the current time"
ErrNoMore == "no more numbers to call"

Schedule(startTime, endTime, phoneNumber) ==
    [StartTime |-> startTime, EndTime |-> endTime, PhoneNumber |-> phoneNumber]

ErrPermission == "permission denied"
ErrUnexpectedEnd == "unexpected end of JSON input"
ErrInvalidCharacter == "invalid character looking for beginning of value"

\* os.Open and os.WriteFile on the schedule file
Readable == perm \in {"r", "rw"}
Writable == perm \in {"w", "rw"}

\* Load that takes a file that does not exist for an error
LoadAbsentFails ==
    IF fileState = "absent" THEN [schedules |-> <<>>, err |-> "no such file or directory"]
    ELSE IF ~Readable THEN [schedules |-> <<>>, err |-> ErrPermission]
    ELSE IF fileState = "empty" THEN [schedules |-> <<>>, err |-> ErrUnexpectedEnd]
    ELSE IF fileState = "garbage" THEN [schedules |-> <<>>, err |-> ErrInvalidCharacter]
    ELSE [schedules |-> file, err |-> Nil]

\* Load that takes whatever it cannot read or decode for an empty schedule
LoadLenient ==
    IF fileState = "json" /\ Readable
    THEN [schedules |-> file, err |-> Nil]
    ELSE [schedules |-> <<>>, err |-> Nil]

\* FileScheduleRepository.Load
Load ==
    IF fileState = "absent" THEN [schedules |-> <<>>, err |-> Nil]
    ELSE IF ~Readable THEN [schedules |-> <<>>, err |-> ErrPermission]
    ELSE IF fileState = "empty" THEN [schedules |-> <<>>, err |-> ErrUnexpectedEnd]
    ELSE IF fileState = "garbage" THEN [schedules |-> <<>>, err |-> ErrInvalidCharacter]
    ELSE [schedules |-> file, err |-> Nil]

\* FileScheduleRepository.Save: the error of os.WriteFile
Save == IF Writable THEN Nil ELSE ErrPermission

\* validateTimeFormat that lets every text through
validateNothing(timeStr) == Nil

validateTimeFormat(timeStr) ==
    IF Parse1504(timeStr).err THEN ErrInvalidTime ELSE Nil

\* InWindow with the bounds of the window included
InWindowInclusive(schedule, currentTime) ==
    LET startTime == Parse1504(schedule.StartTime).t
        endTime == Parse1504(schedule.EndTime).t
        currentParsedTime == Parse1504(currentTime).t
    IN  ~Before(currentParsedTime, startTime) /\ ~After(currentParsedTime, endTime)

\* InWindow that takes a window whose start is not before its end to go over
\* midnight
InWindowOvernight(schedule, currentTime) ==
    LET startTime == Parse1504(schedule.StartTime).t
        endTime == Parse1504(schedule.EndTime).t
        currentParsedTime == Parse1504(currentTime).t
    IN  IF Before(startTime, endTime)
        THEN After(currentParsedTime, startTime) /\ Before(currentParsedTime, endTime)
        ELSE After(currentParsedTime, startTime) \/ Before(currentParsedTime, endTime)

\* The window test of GetPhoneNumberByTime on one entry
InWindow(schedule, currentTime) ==
    LET startTime == Parse1504(schedule.StartTime).t
        endTime == Parse1504(schedule.EndTime).t
        currentParsedTime == Parse1504(currentTime).t
    IN  After(currentParsedTime, startTime) /\ Before(currentParsedTime, endTime)

\* CalledWithinHour with the comparison turned round
CalledOverAnHourAgo(phoneNumber) ==
    /\ phoneNumber \in DOMAIN successfulCalls
    /\ Since(successfulCalls[phoneNumber]) > Hour

\* CalledWithinHour that still holds when the stamp is exactly one hour old
CalledWithinHourOrExactly(phoneNumber) ==
    /\ phoneNumber \in DOMAIN successfulCalls
    /\ Since(successfulCalls[phoneNumber]) <= Hour

\* The check on the success stamp of GetPhoneNumberByTime
CalledWithinHour(phoneNumber) ==
    /\ phoneNumber \in DOMAIN successfulCalls
    /\ Since(successfulCalls[phoneNumber]) < Hour

\* ScanByTime that keeps the last entry that matches instead of the first
RECURSIVE ScanByTimeLastWins(_, _, _)
ScanByTimeLastWins(scheds, i, currentTime) ==
    IF i > Len(scheds)
    THEN [number |-> NoNumber, err |-> ErrNotFound]
    ELSE LET later == ScanByTimeLastWins(scheds, i + 1, currentTime)
         IN  IF later.err = Nil THEN later
             ELSE IF InWindow(scheds[i], currentTime)
                     /\ ~CalledWithinHour(scheds[i].PhoneNumber)
                  THEN [number |-> scheds[i].PhoneNumber, err |-> Nil]
                  ELSE later

\* ScanByTime that gives up at the first matching entry whose number is suppressed
RECURSIVE ScanByTimeStopsAtSuppressed(_, _, _)
ScanByTimeStopsAtSuppressed(scheds, i, currentTime) ==
    IF i > Len(scheds)
    THEN [number |-> NoNumber, err |-> ErrNotFound]
    ELSE IF InWindow(scheds[i], currentTime)
         THEN IF CalledWithinHour(scheds[i].PhoneNumber)
              THEN [number |-> NoNumber, err |-> ErrNotFound]
              ELSE [number |-> scheds[i].PhoneNumber, err |-> Nil]
         ELSE ScanByTimeStopsAtSuppressed(scheds, i + 1, currentTime)

\* The loop of ScheduleService.GetPhoneNumberByTime from index i on
RECURSIVE ScanByTime(_, _, _)
ScanByTime(scheds, i, currentTime) ==
    IF i > Len(scheds)
    THEN [number |-> NoNumber, err |-> ErrNotFound]
    ELSE IF InWindow(scheds[i], currentTime)
         THEN IF CalledWithinHour(scheds[i].PhoneNumber)
              THEN ScanByTime(scheds, i + 1, currentTime)
              ELSE [number |-> scheds[i].PhoneNumber, err |-> Nil]
         ELSE ScanByTime(scheds, i + 1, currentTime)

\* ScheduleService.GetPhoneNumberByTime
GetPhoneNumberByTime ==
    LET loaded == Load
        currentTime == Format1504(now, localOffset)
    IN  IF loaded.err # Nil
        THEN [number |-> NoNumber, err |-> loaded.err]
        ELSE ScanByTime(loaded.schedules, 1, currentTime)

\* ScanNext that returns the entry after the next one
RECURSIVE ScanNextSkipsOne(_, _, _)
ScanNextSkipsOne(scheds, i, currentPhoneNumber) ==
    IF i > Len(scheds)
    THEN [number |-> NoNumber, err |-> ErrNoMore]
    ELSE IF scheds[i].PhoneNumber = currentPhoneNumber /\ i + 1 <= Len(scheds)
         THEN [number |-> scheds[IF i + 2 <= Len(scheds) THEN i + 2 ELSE i].PhoneNumber,
               err |-> Nil]
         ELSE ScanNextSkipsOne(scheds, i + 1, currentPhoneNumber)

\* The loop of ScheduleService.GetNextPhoneNumber from index i on
RECURSIVE ScanNext(_, _, _)
ScanNext(scheds, i, currentPhoneNumber) ==
    IF i > Len(scheds)
    THEN [number |-> NoNumber, err |-> ErrNoMore]
    ELSE IF scheds[i].PhoneNumber = currentPhoneNumber /\ i + 1 <= Len(scheds)
         THEN [number |-> scheds[i + 1].PhoneNumber, err |-> Nil]
         ELSE ScanNext(scheds, i + 1, currentPhoneNumber)

\* ScheduleService.GetNextPhoneNumber
GetNextPhoneNumber(currentPhoneNumber) ==
    LET loaded == Load
    IN  IF loaded.err # Nil
        THEN [number |-> NoNumber, err |-> loaded.err]
        ELSE ScanNext(loaded.schedules, 1, currentPhoneNumber)

\* IsMuted that still holds at the instant muteUntil
IsMutedInclusive == ~After(now, muteUntil)

\* ScheduleService.IsMuted
IsMuted == Before(now, muteUntil)

\* What an operation leaves in `last`
Ran(op, arg, number, err) == [op |-> op, arg |-> arg, number |-> number, err |-> err]

\* The goroutines net/http starts, one for each request being served
Handlers == 1..MaxHandlers

\* No goroutine is inside ScheduleService
Idle == [h \in Handlers |-> [at |-> "idle", number |-> NoNumber]]

\* The TelegramBot NewTelegramBot returns, before any call of Bot.Send
NewTelegramBot(warningChatID, criticalChatID) ==
    [warningChatID |-> warningChatID, criticalChatID |-> criticalChatID, Bot |-> <<>>]

\* No goroutine is in AddSchedule
NotAdding ==
    [h \in Handlers |-> [at |-> "idle", schedules |-> <<>>, newSchedule |-> NoNumber,
                         err |-> Nil]]

Workers == 1..NumWorkers

NoBatch == [id |-> 0, Alerts |-> <<>>]

\* Lastver before it has served a request: the channel empty, every worker
\* waiting to receive
LastverDown ==
    /\ alertChannel = <<>>
    /\ serving = [h \in Handlers |-> [at |-> "idle", msg |-> NoBatch]]
    /\ worker = [w \in Workers |-> [at |-> "receive", msg |-> NoBatch]]
    /\ processed = <<>>
    /\ responses = <<>>

\* No request has come in
NoRequest == [body |-> [kind |-> "none", alerts |-> <<>>], status |-> 0]

\* No escalation has run in the current request
NoTrigger ==
    [ran |-> FALSE, number |-> NoNumber, dials |-> <<>>, resp |-> Nil,
     logged |-> FALSE, muted |-> FALSE]

-----------------------------------------------------------------------------
(* Initial state: NewFileScheduleRepository, NewScheduleService, package app *)

Init ==
    /\ file = <<>>
    /\ fileState = "json"
    /\ perm = "rw"
    /\ successfulCalls = <<>>
    /\ callAttempts = <<>>
    /\ muteUntil = 0
    /\ schedules = <<>>
    /\ now \in InitialInstants
    /\ localOffset \in LocalOffsets
    /\ last = Ran("init", NoNumber, NoNumber, Nil)
    /\ pending = <<>>
    /\ sent = EmptyBag
    /\ calls = <<>>
    /\ trig = NoTrigger
    /\ request = NoRequest
    /\ zoneinfo = TRUE
    /\ pc = Idle
    /\ bot = NewTelegramBot(<<"1">>, <<"2">>)
    /\ LastverDown
    /\ adding = NotAdding

-----------------------------------------------------------------------------
(* Operations of ScheduleService *)

useCaseVars == <<schedules, pending, sent, calls, trig, request, zoneinfo, pc, bot,
                 lastverVars, adding>>

\* append with the new element put in front
appendInFront(slice, elem) == <<elem>> \o slice

\* The built-in append of Go
append(slice, elem) == Append(slice, elem)

\* ScheduleService.AddSchedule
AddSchedule(startTime, endTime, phoneNumber) ==
    /\ Len(file) < MaxSchedules
    /\ LET newSchedule == Schedule(startTime, endTime, phoneNumber)
           loaded == Load
       IN  IF validateTimeFormat(startTime) # Nil \/ validateTimeFormat(endTime) # Nil
           THEN /\ last' = Ran("AddSchedule", newSchedule, NoNumber, ErrInvalidTime)
                /\ UNCHANGED <<file, fileState>>
           ELSE IF loaded.err # Nil
           THEN /\ last' = Ran("AddSchedule", newSchedule, NoNumber, loaded.err)
                /\ UNCHANGED <<file, fileState>>
           ELSE IF Save # Nil
           THEN /\ last' = Ran("AddSchedule", newSchedule, NoNumber, Save)
                /\ UNCHANGED <<file, fileState>>
           ELSE /\ file' = append(loaded.schedules, newSchedule)
                /\ fileState' = "json"
                /\ last' = Ran("AddSchedule", newSchedule, NoNumber, Nil)
    /\ UNCHANGED <<perm, successfulCalls, callAttempts, muteUntil, now, localOffset>>
    /\ UNCHANGED useCaseVars

\* A call of ScheduleService.GetPhoneNumberByTime
ResolveCurrent ==
    /\ LET r == GetPhoneNumberByTime
       IN  last' = Ran("GetPhoneNumberByTime", NoNumber, r.number, r.err)
    /\ UNCHANGED <<file, fileState, perm, successfulCalls, callAttempts, muteUntil, now,
                   localOffset>>
    /\ UNCHANGED useCaseVars

\* A call of ScheduleService.GetNextPhoneNumber
ResolveNext(currentPhoneNumber) ==
    /\ LET r == GetNextPhoneNumber(currentPhoneNumber)
       IN  last' = Ran("GetNextPhoneNumber", currentPhoneNumber, r.number, r.err)
    /\ UNCHANGED <<file, fileState, perm, successfulCalls, callAttempts, muteUntil, now,
                   localOffset>>
    /\ UNCHANGED useCaseVars

\* delete(m, key) of a Go map
Delete(m, key) == [k \in DOMAIN m \ {key} |-> m[k]]

\* m[key] = value of a Go map
Put(m, key, value) == [k \in DOMAIN m \cup {key} |-> IF k = key THEN value ELSE m[k]]

\* MarkCallSuccessful that keeps the stamp of no other number
MarkCallSuccessfulAlone(phoneNumber) ==
    /\ successfulCalls' = [k \in {phoneNumber} |-> now]
    /\ callAttempts' = Delete(callAttempts, phoneNumber)

\* ScheduleService.MarkCallSuccessful
MarkCallSuccessful(phoneNumber) ==
    /\ successfulCalls' = Put(successfulCalls, phoneNumber, now)
    /\ callAttempts' = Delete(callAttempts, phoneNumber)

\* The body of a webhook request, decoded
WebhookData(to, hookEvent) == [To |-> to, HookEvent |-> hookEvent]

\* AlertController.HandleWebhook
HandleWebhook(to, hookEvent) ==
    /\ IF hookEvent = "call_success"
       THEN MarkCallSuccessful(to)
       ELSE UNCHANGED <<successfulCalls, callAttempts>>
    /\ last' = Ran("HandleWebhook", WebhookData(to, hookEvent), NoNumber, Nil)
    /\ UNCHANGED <<file, fileState, perm, muteUntil, now, localOffset>>
    /\ UNCHANGED useCaseVars

\* AlertController.HandleWebhook as the other revision of the controller has
\* it: the body is not read, every webhook counts as a success, and the number
\* marked is the text "webhook"
HandleWebhookUnread(to, hookEvent) ==
    /\ MarkCallSuccessful("webhook")
    /\ last' = Ran("HandleWebhook", WebhookData(to, hookEvent), NoNumber, Nil)
    /\ UNCHANGED <<file, fileState, perm, muteUntil, now, localOffset>>
    /\ UNCHANGED useCaseVars

\* The clock advances by d seconds, up to the instant `until`
Tick(d, until) ==
    /\ now + d <= until
    /\ now' = now + d
    /\ last' = Ran("Tick", NoNumber, NoNumber, Nil)
    /\ UNCHANGED <<file, fileState, perm, successfulCalls, callAttempts, muteUntil,
                   localOffset>>
    /\ UNCHANGED useCaseVars

-----------------------------------------------------------------------------
(* package app: the schedule held in memory and the alert use case *)

\* time.FixedZone("MSK", 3*60*60)
MSK == 3 * 60 * 60

Alert(status, severity, alertGroup) ==
    [Status |-> status, Severity |-> severity, AlertGroup |-> alertGroup]

AlertKinds ==
    {Alert("firing", "Critical", ""), Alert("firing", "Critical", "db"),
     Alert("firing", "Warning", ""), Alert("resolved", "Critical", ""),
     Alert("pending", "Info", "db")}

Batches == UNION {[1..n -> AlertKinds] : n \in 0..MaxBatch}

CallResponses == {"200", "500", "refused"}

\* The loop of app.GetPhoneNumberByTime from index i on
RECURSIVE AppScanByTime(_, _, _)
AppScanByTime(scheds, i, currentTime) ==
    IF i > Len(scheds)
    THEN NoNumber
    ELSE IF InWindow(scheds[i], currentTime)
         THEN scheds[i].PhoneNumber
         ELSE AppScanByTime(scheds, i + 1, currentTime)

\* app.GetPhoneNumberByTime
AppGetPhoneNumberByTime == AppScanByTime(schedules, 1, Format1504(now, MSK))

\* alertUseCase.MakeCall on the provider's answer: the error it returns
MakeCall(data, resp) ==
    IF resp = "refused" THEN "connection refused"
    ELSE IF resp # "200" THEN "failed to make call"
    ELSE Nil

\* GroupKey without the default for an empty label
GroupKeyAsLabelled(alert) == alert.AlertGroup

\* The group key of groupAlertsByAlertGroup
GroupKey(alert) == IF alert.AlertGroup = "" THEN "NoAlertGroup" ELSE alert.AlertGroup

\* The alerts of one group key and status, in the order of the batch
RECURSIVE Filter(_, _, _)
Filter(alerts, groupKey, status) ==
    IF alerts = <<>> THEN <<>>
    ELSE LET rest == Filter(Tail(alerts), groupKey, status)
             a == Head(alerts)
         IN  IF GroupKey(a) = groupKey /\ a.Status = status THEN <<a>> \o rest ELSE rest

\* alertUseCase.groupAlertsByAlertGroup: the keys of the map
GroupKeys(alerts) == {GroupKey(alerts[i]) : i \in 1..Len(alerts)}

\* alertUseCase.separateAlertsByStatus after groupAlertsByAlertGroup:
\* the map of the given status, key |-> alerts of that key and status
ByStatus(alerts, status) ==
    [k \in {g \in GroupKeys(alerts) : Filter(alerts, g, status) # <<>>} |->
        Filter(alerts, k, status)]

ErrSyntax == "strconv.ParseInt: invalid syntax"
ErrUnknownSeverity == "unknown severity level"

DecimalDigits == <<"0", "1", "2", "3", "4", "5", "6", "7", "8", "9">>

DigitValue(c) == (CHOOSE i \in DOMAIN DecimalDigits : DecimalDigits[i] = c) - 1

IsDigit(c) == \E i \in DOMAIN DecimalDigits : DecimalDigits[i] = c

\* The value of a text of decimal digits
RECURSIVE ParseUint(_)
ParseUint(s) ==
    IF s = <<>> THEN 0
    ELSE 10 * ParseUint(SubSeq(s, 1, Len(s) - 1)) + DigitValue(s[Len(s)])

\* strconv.ParseInt(s, 10, 64) of a text short enough to be in range: an
\* optional sign, then one decimal digit or more
ParseInt(s) ==
    IF s = <<>> THEN [n |-> 0, err |-> ErrSyntax]
    ELSE LET digits == IF s[1] \in {"+", "-"} THEN Tail(s) ELSE s
         IN  IF digits = <<>> \/ \E i \in DOMAIN digits : ~IsDigit(digits[i])
             THEN [n |-> 0, err |-> ErrSyntax]
             ELSE [n |-> IF s[1] = "-" THEN 0 - ParseUint(digits) ELSE ParseUint(digits),
                   err |-> Nil]

\* GetChatID that takes every unknown severity for a warning
GetChatIDDefaultsToWarning(severity) ==
    LET chatID == ParseInt(IF severity = "Critical" THEN bot.criticalChatID
                           ELSE bot.warningChatID)
    IN  [chat |-> chatID.n, err |-> chatID.err]

\* TelegramBot.GetChatID
GetChatID(severity) ==
    IF severity \notin {"Warning", "Critical"}
    THEN [chat |-> 0, err |-> ErrUnknownSeverity]
    ELSE LET chatID == ParseInt(IF severity = "Warning" THEN bot.warningChatID
                                ELSE bot.criticalChatID)
         IN  [chat |-> chatID.n, err |-> chatID.err]

\* The cut splitLongMessage makes in a message longer than maxMsgLength: the
\* last line feed at or before byte splitIndex, byte 0 left out
RECURSIVE SplitIndex(_, _)
SplitIndex(message, splitIndex) ==
    IF splitIndex > 0 /\ message[splitIndex + 1] # "\n"
    THEN SplitIndex(message, splitIndex - 1)
    ELSE splitIndex

\* SplitLoop that leaves out the line feed it cuts at
RECURSIVE SplitLoopDropsLineFeed(_)
SplitLoopDropsLineFeed(message) ==
    IF Len(message) > maxMsgLength
    THEN LET found == SplitIndex(message, maxMsgLength)
             splitIndex == IF found = 0 THEN maxMsgLength ELSE found
             next == IF found = 0 THEN splitIndex + 1 ELSE splitIndex + 2
         IN  <<SubSeq(message, 1, splitIndex)>>
                 \o SplitLoopDropsLineFeed(SubSeq(message, next, Len(message)))
    ELSE <<message>>

\* The loop of splitLongMessage with the append that follows it
RECURSIVE SplitLoop(_)
SplitLoop(message) ==
    IF Len(message) > maxMsgLength
    THEN LET found == SplitIndex(message, maxMsgLength)
             splitIndex == IF found = 0 THEN maxMsgLength ELSE found
         IN  <<SubSeq(message, 1, splitIndex)>>
                 \o SplitLoop(SubSeq(message, splitIndex + 1, Len(message)))
    ELSE <<message>>

\* splitLongMessage that never splits
splitNever(message) == <<message>>

\* splitLongMessage
splitLongMessage(message) ==
    IF Len(message) <= maxMsgLength THEN <<message>> ELSE SplitLoop(message)

ErrSend == "Bad Gateway"

\* The loop of Lastver's sendMessage: an error of Send is logged and the loop goes on
RECURSIVE SendLoopKeepsGoing(_, _, _)
SendLoopKeepsGoing(chatID, messages, failure) ==
    IF messages = <<>> THEN [made |-> <<>>, err |-> Nil]
    ELSE LET err == IF failure = 1 THEN ErrSend ELSE Nil
             rest == SendLoopKeepsGoing(chatID, Tail(messages), failure - 1)
         IN  [made |-> <<[chat |-> chatID, text |-> Head(messages), err |-> err]>>
                           \o rest.made,
              err |-> IF err # Nil THEN err ELSE rest.err]

\* The loop of TelegramBot.SendMessage: the calls of Bot.Send it makes when the
\* call numbered failure fails, and the error it returns
RECURSIVE SendLoop(_, _, _)
SendLoop(chatID, messages, failure) ==
    IF messages = <<>> THEN [made |-> <<>>, err |-> Nil]
    ELSE IF failure = 1
         THEN [made |-> <<[chat |-> chatID, text |-> Head(messages), err |-> ErrSend]>>,
               err |-> ErrSend]
         ELSE LET rest == SendLoop(chatID, Tail(messages), failure - 1)
              IN  [made |-> <<[chat |-> chatID, text |-> Head(messages), err |-> Nil]>>
                                \o rest.made,
                   err |-> rest.err]

\* strings.ToUpper of a status
ToUpper(status) ==
    CASE status = "firing" -> "FIRING"
      [] status = "resolved" -> "RESOLVED"
      [] OTHER -> "OTHER"

\* alertUseCase.formatAlertMessage: one paragraph for each firing or resolved
\* alert, in order; <<>> is the empty text
RECURSIVE formatAlertMessage(_)
formatAlertMessage(alerts) ==
    IF ~zoneinfo \/ alerts = <<>> THEN <<>>
    ELSE LET alert == Head(alerts)
             rest == formatAlertMessage(Tail(alerts))
         IN  IF alert.Status = "firing"
             THEN <<[emoji |-> "FiringEmoji", status |-> ToUpper(alert.Status),
                     severity |-> alert.Severity]>> \o rest
             ELSE IF alert.Status = "resolved"
             THEN <<[emoji |-> "ResolvedEmoji", status |-> ToUpper(alert.Status),
                     severity |-> alert.Severity]>> \o rest
             ELSE rest

\* The body of the loop of sendGroupedAlerts that sends every group twice
SendGroupTwice(groupedAlerts) ==
    LET chatID == GetChatID(groupedAlerts[1].Severity)
        messageText == formatAlertMessage(groupedAlerts)
        message == [chat |-> chatID.chat, text |-> messageText]
    IN  IF chatID.err # Nil \/ messageText = <<>> THEN EmptyBag
        ELSE SetToBag({message}) (+) SetToBag({message})

\* The body of the loop of sendGroupedAlerts with the chat chosen by the last alert
SendGroupByLastSeverity(groupedAlerts) ==
    IF Len(groupedAlerts) = 0 THEN EmptyBag
    ELSE LET chatID == GetChatID(groupedAlerts[Len(groupedAlerts)].Severity)
             messageText == formatAlertMessage(groupedAlerts)
         IN  IF chatID.err # Nil THEN EmptyBag
             ELSE IF messageText = <<>> THEN EmptyBag
             ELSE SetToBag({[chat |-> chatID.chat, text |-> messageText]})

\* The body of the loop of sendGroupedAlerts: the SendMessage calls for one group
SendGroup(groupedAlerts) ==
    IF Len(groupedAlerts) = 0 THEN EmptyBag
    ELSE LET chatID == GetChatID(groupedAlerts[1].Severity)
             messageText == formatAlertMessage(groupedAlerts)
         IN  IF chatID.err # Nil THEN EmptyBag
             ELSE IF messageText = <<>> THEN EmptyBag
             ELSE SetToBag({[chat |-> chatID.chat, text |-> messageText]})

\* The loop of sendGroupedAlerts over the groups of the given keys
RECURSIVE SendGroups(_, _)
SendGroups(groups, keys) ==
    IF keys = {} THEN EmptyBag
    ELSE LET k == CHOOSE g \in keys : TRUE
         IN  SendGroup(groups[k]) (+) SendGroups(groups, keys \ {k})

\* alertUseCase.sendGroupedAlerts: the SendMessage calls it makes for one map
sendGroupedAlerts(groups) == SendGroups(groups, DOMAIN groups)

\* Critical that takes every alert, whatever its severity
EveryAlert(alerts) == alerts

\* The alerts of one group for which SendAlerts places a call
RECURSIVE Critical(_)
Critical(alerts) ==
    IF alerts = <<>> THEN <<>>
    ELSE IF Head(alerts).Severity = "Critical"
         THEN <<Head(alerts)>> \o Critical(Tail(alerts))
         ELSE Critical(Tail(alerts))

\* The alerts SendAlerts places a call for, the groups of the firing map
\* taken in the given order
RECURSIVE CriticalOf(_, _)
CriticalOf(firing, order) ==
    IF order = <<>> THEN <<>>
    ELSE Critical(firing[Head(order)]) \o CriticalOf(firing, Tail(order))

\* The orders in which range may visit the keys of a map
Orders(keys) ==
    {o \in [1..Cardinality(keys) -> keys] : \A i, j \in DOMAIN o : i # j => o[i] # o[j]}

scheduleVars == <<file, fileState, perm, successfulCalls, callAttempts, muteUntil,
                  localOffset, pc, bot, lastverVars, adding>>

\* app.AddSchedule
AppAddSchedule(startTime, endTime, phoneNumber) ==
    /\ Len(schedules) < MaxSchedules
    /\ IF Parse1504(startTime).err \/ Parse1504(endTime).err
       THEN /\ last' = Ran("AppAddSchedule", phoneNumber, NoNumber, ErrInvalidTime)
            /\ schedules' = schedules
       ELSE /\ schedules' = Append(schedules, Schedule(startTime, endTime, phoneNumber))
            /\ last' = Ran("AppAddSchedule", phoneNumber, NoNumber, Nil)
    /\ UNCHANGED <<pending, sent, calls, trig, request, zoneinfo, now>>
    /\ UNCHANGED scheduleVars

\* Answered that writes the status before the calls of the batch are placed
AnsweredAtOnce(left) == 200

\* AlertController.HandleAlert after SendAlerts: the status written, 200 once
\* the loop of SendAlerts has no alert left, none (0) until then
Answered(left) == IF left = <<>> THEN 200 ELSE 0

\* alertUseCase.SendAlerts up to the first call: grouping and the messages
SendAlerts(alerts) ==
    /\ pending = <<>>
    /\ LET firingAlerts == ByStatus(alerts, "firing")
           resolvedAlerts == ByStatus(alerts, "resolved")
       IN  /\ sent' = sendGroupedAlerts(firingAlerts) (+) sendGroupedAlerts(resolvedAlerts)
           /\ \E order \in Orders(DOMAIN firingAlerts) :
                  pending' = CriticalOf(firingAlerts, order)
    /\ calls' = <<>>
    /\ trig' = NoTrigger
    /\ last' = Ran("SendAlerts", NoNumber, NoNumber, Nil)
    /\ UNCHANGED <<schedules, zoneinfo, now>>
    /\ UNCHANGED scheduleVars

\* alertUseCase.SendAlerts, the body of the loop for one critical firing alert:
\* the number of the hour, one MakeCall, the error logged
Escalate(resp) ==
    /\ pending # <<>>
    /\ LET number == AppGetPhoneNumberByTime
           err == MakeCall(number, resp)
       IN  /\ calls' = Append(calls, number)
           /\ trig' = [ran |-> TRUE, number |-> number, dials |-> <<number>>,
                       resp |-> resp, logged |-> err # Nil, muted |-> IsMuted]
           /\ last' = Ran("Escalate", NoNumber, number, err)
    /\ pending' = Tail(pending)
    /\ request' = IF request.body.kind = "json" /\ request.status = 0
                  THEN [request EXCEPT !.status = Answered(Tail(pending))]
                  ELSE request
    /\ UNCHANGED <<schedules, sent, zoneinfo, now>>
    /\ UNCHANGED scheduleVars

\* The bodies of the requests to the alert endpoint: text that is not JSON,
\* JSON whose alerts field is not an array, and messages with a batch of alerts
HandlerAlertKinds == AlertKinds \cup {Alert("firing", "Info", "db")}
Bodies ==
    {[kind |-> "garbage", alerts |-> <<>>], [kind |-> "mistyped", alerts |-> <<>>]}
    \cup {[kind |-> "json", alerts |-> b] :
              b \in UNION {[1..n -> HandlerAlertKinds] : n \in 0..MaxBatch}}

\* Decode that takes every body for a message, one without alerts if need be
DecodeAnything(body) == [Alerts |-> body.alerts, err |-> Nil]

\* json.NewDecoder(r.Body).Decode(&msg)
Decode(body) ==
    IF body.kind = "json"
    THEN [Alerts |-> body.alerts, err |-> Nil]
    ELSE [Alerts |-> <<>>, err |-> "json: cannot decode"]

\* AlertController.HandleAlert, one request at a time
HandleAlert(body) ==
    LET msg == Decode(body)
    IN  IF msg.err # Nil
        THEN /\ pending = <<>>
             /\ request' = [body |-> body, status |-> 400]
             /\ last' = Ran("HandleAlert", NoNumber, NoNumber, msg.err)
             /\ UNCHANGED <<schedules, pending, sent, calls, trig, zoneinfo, now>>
             /\ UNCHANGED scheduleVars
        ELSE /\ SendAlerts(msg.Alerts)
             /\ request' = [body |-> body, status |-> Answered(pending')]

\* The mute command: ScheduleService.muteUntil = now + 2 hours
SetMute ==
    /\ muteUntil' = now + 2 * Hour
    /\ last' = Ran("SetMute", NoNumber, NoNumber, Nil)
    /\ UNCHANGED <<file, fileState, perm, successfulCalls, callAttempts, localOffset, now>>
    /\ UNCHANGED useCaseVars

Next ==
    \/ \E w \in Windows, p \in Phones : AddSchedule(w[1], w[2], p)
    \/ ResolveCurrent
    \/ \E p \in Phones \cup {OtherPhone} : ResolveNext(p)
    \/ \E p \in Phones, ev \in HookEvents : HandleWebhook(p, ev)
    \/ \E d \in ClockSteps : Tick(d, MaxTicks * d + 59)

Spec == Init /\ [][Next]_vars

-----------------------------------------------------------------------------
(* The alert use case, from midnight in Moscow on *)

UseCaseSteps == {3600}

\* 00:00 in Moscow, 21:00 UTC
UseCaseStart == 21 * 3600

InitUseCase ==
    /\ file = <<>>
    /\ fileState = "json"
    /\ perm = "rw"
    /\ successfulCalls = <<>>
    /\ callAttempts = <<>>
    /\ muteUntil = 0
    /\ schedules = <<>>
    /\ now = UseCaseStart
    /\ localOffset = 0
    /\ last = Ran("init", NoNumber, NoNumber, Nil)
    /\ pending = <<>>
    /\ sent = EmptyBag
    /\ calls = <<>>
    /\ trig = NoTrigger
    /\ request = NoRequest
    /\ zoneinfo = TRUE
    /\ pc = Idle
    /\ bot = NewTelegramBot(<<"1">>, <<"2">>)
    /\ LastverDown
    /\ adding = NotAdding

NextUseCase ==
    \/ \E w \in AppWindows, p \in Phones : AppAddSchedule(w[1], w[2], p)
    \/ \E alerts \in Batches : SendAlerts(alerts) /\ UNCHANGED request
    \/ \E resp \in CallResponses : Escalate(resp)
    \/ SetMute
    \/ \E d \in UseCaseSteps : Tick(d, UseCaseStart + MaxUseCaseTicks * d)

SpecUseCase == InitUseCase /\ [][NextUseCase]_vars

-----------------------------------------------------------------------------
(* The schedule store in every condition NewFileScheduleRepository can leave *)
(* it in, at 01:00 local time                                              *)

FilePerms == {"rw", "r", "w", "none"}
FileStates == {"absent", "empty", "garbage", "json"}
StoreInstant == 3600

\* NewFileScheduleRepository creates the file when there is none; it stays
\* absent only if os.Create fails.
InitStore ==
    /\ file = <<>>
    /\ fileState \in FileStates
    /\ perm \in FilePerms
    /\ fileState = "absent" => ~Writable
    /\ successfulCalls = <<>>
    /\ callAttempts = <<>>
    /\ muteUntil = 0
    /\ schedules = <<>>
    /\ now = StoreInstant
    /\ localOffset = 0
    /\ last = Ran("init", NoNumber, NoNumber, Nil)
    /\ pending = <<>>
    /\ sent = EmptyBag
    /\ calls = <<>>
    /\ trig = NoTrigger
    /\ request = NoRequest
    /\ zoneinfo = TRUE
    /\ pc = Idle
    /\ bot = NewTelegramBot(<<"1">>, <<"2">>)
    /\ LastverDown
    /\ adding = NotAdding

NextStore ==
    \/ \E w \in Windows, p \in Phones : AddSchedule(w[1], w[2], p)
    \/ ResolveCurrent
    \/ \E p \in Phones \cup {OtherPhone} : ResolveNext(p)

SpecStore == InitStore /\ [][NextStore]_vars

-----------------------------------------------------------------------------
(* The mute of ScheduleService over four and a half hours *)

InitMute ==
    /\ file = <<>>
    /\ fileState = "json"
    /\ perm = "rw"
    /\ successfulCalls = <<>>
    /\ callAttempts = <<>>
    /\ muteUntil = 0
    /\ schedules = <<>>
    /\ now = 0
    /\ localOffset = 0
    /\ last = Ran("init", NoNumber, NoNumber, Nil)
    /\ pending = <<>>
    /\ sent = EmptyBag
    /\ calls = <<>>
    /\ trig = NoTrigger
    /\ request = NoRequest
    /\ zoneinfo = TRUE
    /\ pc = Idle
    /\ bot = NewTelegramBot(<<"1">>, <<"2">>)
    /\ LastverDown
    /\ adding = NotAdding

NextMute ==
    \/ SetMute
    \/ \E p \in Phones, ev \in HookEvents : HandleWebhook(p, ev)
    \/ \E d \in ClockSteps : Tick(d, MaxMuteTicks * d)

SpecMute == InitMute /\ [][NextMute]_vars

-----------------------------------------------------------------------------
(* The schedule over one day, with windows given the wrong way round *)

InitWindows ==
    /\ file = <<>>
    /\ fileState = "json"
    /\ perm = "rw"
    /\ successfulCalls = <<>>
    /\ callAttempts = <<>>
    /\ muteUntil = 0
    /\ schedules = <<>>
    /\ now = 0
    /\ localOffset = 0
    /\ last = Ran("init", NoNumber, NoNumber, Nil)
    /\ pending = <<>>
    /\ sent = EmptyBag
    /\ calls = <<>>
    /\ trig = NoTrigger
    /\ request = NoRequest
    /\ zoneinfo = TRUE
    /\ pc = Idle
    /\ bot = NewTelegramBot(<<"1">>, <<"2">>)
    /\ LastverDown
    /\ adding = NotAdding

NextWindows ==
    \/ \E w \in DayWindows, p \in Phones : AddSchedule(w[1], w[2], p)
    \/ ResolveCurrent
    \/ \E d \in DaySteps : Tick(d, MaxDayTicks * d)

SpecWindows == InitWindows /\ [][NextWindows]_vars

-----------------------------------------------------------------------------
(* A deployment without a schedule file: the repository is constructed, and
   then used *)

\* NewFileScheduleRepository: a file that is not there is created, with
\* nothing in it, when the process may write there
NewFileScheduleRepository ==
    /\ last.op = "init"
    /\ fileState' = IF fileState = "absent" /\ Writable THEN "empty" ELSE fileState
    /\ last' = Ran("NewFileScheduleRepository", NoNumber, NoNumber, Nil)
    /\ UNCHANGED <<file, perm, successfulCalls, callAttempts, muteUntil, now, localOffset>>
    /\ UNCHANGED useCaseVars

InitFresh ==
    /\ file = <<>>
    /\ fileState = "absent"
    /\ perm \in FilePerms
    /\ successfulCalls = <<>>
    /\ callAttempts = <<>>
    /\ muteUntil = 0
    /\ schedules = <<>>
    /\ now = StoreInstant
    /\ localOffset = 0
    /\ last = Ran("init", NoNumber, NoNumber, Nil)
    /\ pending = <<>>
    /\ sent = EmptyBag
    /\ calls = <<>>
    /\ trig = NoTrigger
    /\ request = NoRequest
    /\ zoneinfo = TRUE
    /\ pc = Idle
    /\ bot = NewTelegramBot(<<"1">>, <<"2">>)
    /\ LastverDown
    /\ adding = NotAdding

NextFresh ==
    \/ NewFileScheduleRepository
    \/ last.op # "init" /\ \E w \in Windows, p \in Phones : AddSchedule(w[1], w[2], p)
    \/ last.op # "init" /\ ResolveCurrent
    \/ last.op # "init" /\ \E d \in ClockSteps : Tick(d, StoreInstant + MaxTicks * d)

SpecFresh == InitFresh /\ [][NextFresh]_vars

-----------------------------------------------------------------------------
(* AddSchedule called by several goroutines at once: each loads the file,
   appends its entry to what it loaded and saves the result, with nothing to
   keep another call from running in between *)

addFrame == <<perm, successfulCalls, callAttempts, muteUntil, now, localOffset, schedules,
              pending, sent, calls, trig, request, zoneinfo, pc, bot, lastverVars>>

\* the schedule on file before the calls
ScheduleBefore == <<Schedule(<<0, 30>>, <<1, 30>>, "+1")>>

\* AddSchedule up to the append: the times are validated and the file loaded
AddLoad(h, startTime, endTime, phoneNumber) ==
    LET newSchedule == Schedule(startTime, endTime, phoneNumber)
        loaded == Load
        err == IF validateTimeFormat(startTime) # Nil \/ validateTimeFormat(endTime) # Nil
               THEN ErrInvalidTime
               ELSE loaded.err
    IN  /\ adding[h].at = "idle"
        /\ adding' = [adding EXCEPT ![h] =
                          [at |-> IF err # Nil THEN "done" ELSE "save",
                           schedules |-> IF err # Nil THEN <<>>
                                         ELSE append(loaded.schedules, newSchedule),
                           newSchedule |-> newSchedule,
                           err |-> err]]
        /\ last' = Ran("AddSchedule", newSchedule, NoNumber, err)
        /\ UNCHANGED <<file, fileState>>
        /\ UNCHANGED addFrame

\* AddSchedule from s.repo.Save on: what was loaded, with the new entry, is
\* written over the file
AddSave(h) ==
    /\ adding[h].at = "save"
    /\ IF Save # Nil
       THEN UNCHANGED <<file, fileState>>
       ELSE file' = adding[h].schedules /\ fileState' = "json"
    /\ adding' = [adding EXCEPT ![h].at = "done", ![h].err = Save]
    /\ last' = Ran("AddSchedule", adding[h].newSchedule, NoNumber, Save)
    /\ UNCHANGED addFrame

InitAdd ==
    /\ file = ScheduleBefore
    /\ fileState = "json"
    /\ perm = "rw"
    /\ successfulCalls = <<>>
    /\ callAttempts = <<>>
    /\ muteUntil = 0
    /\ schedules = <<>>
    /\ now = 0
    /\ localOffset = 0
    /\ last = Ran("init", NoNumber, NoNumber, Nil)
    /\ pending = <<>>
    /\ sent = EmptyBag
    /\ calls = <<>>
    /\ trig = NoTrigger
    /\ request = NoRequest
    /\ zoneinfo = TRUE
    /\ pc = Idle
    /\ bot = NewTelegramBot(<<"1">>, <<"2">>)
    /\ LastverDown
    /\ adding = NotAdding

NextAdd ==
    \/ \E h \in Handlers, w \in Windows, p \in Phones : AddLoad(h, w[1], w[2], p)
    \/ \E h \in Handlers : AddSave(h)

SpecAdd == InitAdd /\ [][NextAdd]_vars

-----------------------------------------------------------------------------
(* Webhooks of the call provider, handled by either revision of the
   controller, and the lookups after them *)

WebhookInstant == 3600

WebhookSchedule ==
    <<Schedule(<<0, 30>>, <<3, 30>>, "+1"), Schedule(<<0, 30>>, <<3, 30>>, "+2")>>

InitWebhook ==
    /\ file = WebhookSchedule
    /\ fileState = "json"
    /\ perm = "rw"
    /\ successfulCalls = <<>>
    /\ callAttempts = <<>>
    /\ muteUntil = 0
    /\ schedules = <<>>
    /\ now = WebhookInstant
    /\ localOffset = 0
    /\ last = Ran("init", NoNumber, NoNumber, Nil)
    /\ pending = <<>>
    /\ sent = EmptyBag
    /\ calls = <<>>
    /\ trig = NoTrigger
    /\ request = NoRequest
    /\ zoneinfo = TRUE
    /\ pc = Idle
    /\ bot = NewTelegramBot(<<"1">>, <<"2">>)
    /\ LastverDown
    /\ adding = NotAdding

NextWebhook ==
    \/ \E p \in Phones, ev \in HookEvents : HandleWebhook(p, ev)
    \/ \E p \in Phones, ev \in HookEvents : HandleWebhookUnread(p, ev)
    \/ ResolveCurrent
    \/ \E d \in ClockSteps : Tick(d, WebhookInstant + MaxTicks * d)

SpecWebhook == InitWebhook /\ [][NextWebhook]_vars

-----------------------------------------------------------------------------
(* TelegramBot on its own: the chat IDs as configured, well or badly, and a
   Bot.Send that may fail *)

telegramFrame == <<file, fileState, perm, successfulCalls, callAttempts, muteUntil,
                   schedules, now, localOffset, pending, sent, calls, trig, request,
                   zoneinfo, pc, lastverVars, adding>>

\* A call of splitLongMessage
SplitLongMessage(message) ==
    /\ last' = Ran("splitLongMessage", message, splitLongMessage(message), Nil)
    /\ UNCHANGED bot
    /\ UNCHANGED telegramFrame

\* A call of TelegramBot.GetChatID
AskChatID(severity) ==
    LET chatID == GetChatID(severity)
    IN  /\ last' = Ran("GetChatID", severity, chatID.chat, chatID.err)
        /\ UNCHANGED bot
        /\ UNCHANGED telegramFrame

\* TelegramBot.SendMessage, the call of Bot.Send numbered failure failing
SendMessage(chatID, messageText, failure) ==
    LET messages == splitLongMessage(messageText)
        loop == SendLoop(chatID, messages, failure)
    IN  /\ bot' = [bot EXCEPT !.Bot = loop.made]
        /\ last' = Ran("SendMessage", [chatID |-> chatID, messageText |-> messageText],
                       NoNumber, loop.err)
        /\ UNCHANGED telegramFrame

InitTelegram ==
    /\ file = <<>>
    /\ fileState = "json"
    /\ perm = "rw"
    /\ successfulCalls = <<>>
    /\ callAttempts = <<>>
    /\ muteUntil = 0
    /\ schedules = <<>>
    /\ now = 0
    /\ localOffset = 0
    /\ last = Ran("init", NoNumber, NoNumber, Nil)
    /\ pending = <<>>
    /\ sent = EmptyBag
    /\ calls = <<>>
    /\ trig = NoTrigger
    /\ request = NoRequest
    /\ zoneinfo = TRUE
    /\ pc = Idle
    /\ \E ids \in ChatIDTexts : bot = NewTelegramBot(ids[1], ids[2])
    /\ LastverDown
    /\ adding = NotAdding

NextTelegram ==
    \/ \E message \in Messages : SplitLongMessage(message)
    \/ \E severity \in Severities : AskChatID(severity)

SpecTelegram == InitTelegram /\ [][NextTelegram]_vars

NextSend ==
    \E chatID \in ChatIDs, messageText \in Messages, failure \in Failures :
        SendMessage(chatID, messageText, failure)

SpecSend == InitTelegram /\ [][NextSend]_vars

-----------------------------------------------------------------------------
(* Lastver: the requests are decoded by alertHandler, queued in alertChannel
   and processed by the workers *)

lastverFrame == <<file, fileState, perm, successfulCalls, callAttempts, muteUntil,
                  schedules, now, localOffset, pending, calls, trig, request,
                  zoneinfo, pc, bot, adding>>

QueuedBodies ==
    {[kind |-> "garbage", alerts |-> <<>>],
     [kind |-> "json", alerts |-> <<Alert("firing", "Critical", "")>>]}

\* alertHandler up to the send on the channel: the body is decoded, and a
\* body that is no message is answered 400
AlertHandler(h, body) ==
    LET msg == Decode(body)
        id == Len(responses) + 1
    IN  /\ serving[h].at = "idle"
        /\ Len(responses) < MaxRequests
        /\ IF msg.err # Nil
           THEN /\ responses' = Append(responses, 400)
                /\ UNCHANGED serving
           ELSE /\ responses' = Append(responses, 0)
                /\ serving' = [serving EXCEPT ![h] =
                                   [at |-> "send", msg |-> [id |-> id, Alerts |-> msg.Alerts]]]
        /\ last' = Ran("alertHandler", id, NoNumber, msg.err)
        /\ UNCHANGED <<alertChannel, worker, processed, sent>>
        /\ UNCHANGED lastverFrame

\* alertChannel <- msg: blocks while the channel is full
Enqueue(h) ==
    /\ serving[h].at = "send"
    /\ Len(alertChannel) < ChannelCapacity
    /\ alertChannel' = Append(alertChannel, serving[h].msg)
    /\ serving' = [serving EXCEPT ![h].at = "respond"]
    /\ last' = Ran("Enqueue", serving[h].msg.id, NoNumber, Nil)
    /\ UNCHANGED <<worker, processed, responses, sent>>
    /\ UNCHANGED lastverFrame

\* w.WriteHeader(http.StatusOK)
Respond(h) ==
    /\ serving[h].at = "respond"
    /\ responses' = [responses EXCEPT ![serving[h].msg.id] = 200]
    /\ serving' = [serving EXCEPT ![h] = [at |-> "idle", msg |-> NoBatch]]
    /\ last' = Ran("Respond", serving[h].msg.id, NoNumber, Nil)
    /\ UNCHANGED <<alertChannel, worker, processed, sent>>
    /\ UNCHANGED lastverFrame

\* A receive that leaves the message in the channel
ReceivePeeking(w) ==
    /\ worker[w].at = "receive"
    /\ alertChannel # <<>>
    /\ worker' = [worker EXCEPT ![w] = [at |-> "process", msg |-> Head(alertChannel)]]
    /\ last' = Ran("Receive", Head(alertChannel).id, NoNumber, Nil)
    /\ UNCHANGED <<alertChannel, serving, processed, responses, sent>>
    /\ UNCHANGED lastverFrame

\* worker: for msg := range alertChannel
Receive(w) ==
    /\ worker[w].at = "receive"
    /\ alertChannel # <<>>
    /\ worker' = [worker EXCEPT ![w] = [at |-> "process", msg |-> Head(alertChannel)]]
    /\ alertChannel' = Tail(alertChannel)
    /\ last' = Ran("Receive", Head(alertChannel).id, NoNumber, Nil)
    /\ UNCHANGED <<serving, processed, responses, sent>>
    /\ UNCHANGED lastverFrame

\* processAlerts: the messages of the firing groups, then of the resolved groups
processAlerts(alerts) ==
    sendGroupedAlerts(ByStatus(alerts, "firing"))
        (+) sendGroupedAlerts(ByStatus(alerts, "resolved"))

\* worker: processAlerts(msg.Alerts)
Process(w) ==
    /\ worker[w].at = "process"
    /\ sent' = sent (+) processAlerts(worker[w].msg.Alerts)
    /\ processed' = Append(processed, [worker |-> w, id |-> worker[w].msg.id])
    /\ worker' = [worker EXCEPT ![w] = [at |-> "receive", msg |-> NoBatch]]
    /\ last' = Ran("Process", worker[w].msg.id, NoNumber, Nil)
    /\ UNCHANGED <<alertChannel, serving, responses>>
    /\ UNCHANGED lastverFrame

InitLastver ==
    /\ file = <<>>
    /\ fileState = "json"
    /\ perm = "rw"
    /\ successfulCalls = <<>>
    /\ callAttempts = <<>>
    /\ muteUntil = 0
    /\ schedules = <<>>
    /\ now = 0
    /\ localOffset = 0
    /\ last = Ran("init", NoNumber, NoNumber, Nil)
    /\ pending = <<>>
    /\ sent = EmptyBag
    /\ calls = <<>>
    /\ trig = NoTrigger
    /\ request = NoRequest
    /\ zoneinfo = TRUE
    /\ pc = Idle
    /\ bot = NewTelegramBot(<<"1">>, <<"2">>)
    /\ LastverDown
    /\ adding = NotAdding

NextLastver ==
    \/ \E h \in Handlers, body \in QueuedBodies : AlertHandler(h, body)
    \/ \E h \in Handlers : Enqueue(h)
    \/ \E h \in Handlers : Respond(h)
    \/ \E w \in Workers : Receive(w)
    \/ \E w \in Workers : Process(w)

\* Every worker goroutine that can run is run in the end
LastverFairness ==
    \A w \in Workers : WF_vars(Receive(w)) /\ WF_vars(Process(w))

SpecLastver == InitLastver /\ [][NextLastver]_vars /\ LastverFairness

-----------------------------------------------------------------------------
(* Requests served at the same time: net/http runs every handler in a      *)
(* goroutine of its own, and ScheduleService holds no lock.  A step is one *)
(* access of a map; a map written while another goroutine reads or writes  *)
(* it is a data race, which the Go runtime may end with a fatal error.     *)

raceFrame == <<file, fileState, perm, muteUntil, now, localOffset, schedules, pending,
               sent, calls, trig, request, zoneinfo, bot, lastverVars, adding>>

Dead == [h \in Handlers |-> [at |-> "dead", number |-> NoNumber]]

\* Another goroutine is inside one of the given accesses
Racing(h, ats) == \E g \in Handlers \ {h} : pc[g].at \in ats

\* AlertController.HandleWebhook up to the call of MarkCallSuccessful
WebhookBegin(h, to, hookEvent) ==
    /\ pc[h].at = "idle"
    /\ pc' = IF hookEvent = "call_success"
             THEN [pc EXCEPT ![h] = [at |-> "stamp", number |-> to]]
             ELSE pc
    /\ last' = Ran("WebhookBegin", WebhookData(to, hookEvent), NoNumber, Nil)
    /\ UNCHANGED <<successfulCalls, callAttempts>>
    /\ UNCHANGED raceFrame

\* MarkCallSuccessful: s.successfulCalls[phoneNumber] = time.Now()
Stamp(h, fatal) ==
    /\ pc[h].at = "stamp"
    /\ fatal => Racing(h, {"stamp", "lookup"})
    /\ IF fatal
       THEN /\ pc' = Dead
            /\ last' = Ran("Stamp", pc[h].number, NoNumber, "fatal error: concurrent map writes")
            /\ UNCHANGED successfulCalls
       ELSE /\ successfulCalls' = Put(successfulCalls, pc[h].number, now)
            /\ pc' = [pc EXCEPT ![h].at = "clear"]
            /\ last' = Ran("Stamp", pc[h].number, NoNumber, Nil)
    /\ UNCHANGED callAttempts
    /\ UNCHANGED raceFrame

\* MarkCallSuccessful: delete(s.callAttempts, phoneNumber), and the answer
ClearAttempts(h, fatal) ==
    /\ pc[h].at = "clear"
    /\ fatal => Racing(h, {"clear"})
    /\ IF fatal
       THEN /\ pc' = Dead
            /\ last' = Ran("ClearAttempts", pc[h].number, NoNumber,
                           "fatal error: concurrent map writes")
            /\ UNCHANGED callAttempts
       ELSE /\ callAttempts' = Delete(callAttempts, pc[h].number)
            /\ pc' = [pc EXCEPT ![h] = [at |-> "idle", number |-> NoNumber]]
            /\ last' = Ran("ClearAttempts", pc[h].number, NoNumber, Nil)
    /\ UNCHANGED successfulCalls
    /\ UNCHANGED raceFrame

\* GetPhoneNumberByTime up to the loop: the schedule is loaded
LookupBegin(h) ==
    /\ pc[h].at = "idle"
    /\ pc' = [pc EXCEPT ![h] = [at |-> "lookup", number |-> NoNumber]]
    /\ last' = Ran("LookupBegin", NoNumber, NoNumber, Nil)
    /\ UNCHANGED <<successfulCalls, callAttempts>>
    /\ UNCHANGED raceFrame

\* GetPhoneNumberByTime: the loop, which reads s.successfulCalls
Lookup(h, fatal) ==
    /\ pc[h].at = "lookup"
    /\ fatal => Racing(h, {"stamp"})
    /\ IF fatal
       THEN /\ pc' = Dead
            /\ last' = Ran("Lookup", NoNumber, NoNumber,
                           "fatal error: concurrent map read and map write")
       ELSE /\ pc' = [pc EXCEPT ![h] = [at |-> "idle", number |-> NoNumber]]
            /\ LET r == GetPhoneNumberByTime
               IN  last' = Ran("Lookup", NoNumber, r.number, r.err)
    /\ UNCHANGED <<successfulCalls, callAttempts>>
    /\ UNCHANGED raceFrame

RaceSchedule == <<Schedule(<<0, 30>>, <<1, 30>>, "+1"), Schedule(<<0, 30>>, <<1, 30>>, "+2")>>

InitRace ==
    /\ file = RaceSchedule
    /\ fileState = "json"
    /\ perm = "rw"
    /\ successfulCalls = <<>>
    /\ callAttempts = <<>>
    /\ muteUntil = 0
    /\ schedules = <<>>
    /\ now = StoreInstant
    /\ localOffset = 0
    /\ last = Ran("init", NoNumber, NoNumber, Nil)
    /\ pending = <<>>
    /\ sent = EmptyBag
    /\ calls = <<>>
    /\ trig = NoTrigger
    /\ request = NoRequest
    /\ zoneinfo = TRUE
    /\ pc = Idle
    /\ bot = NewTelegramBot(<<"1">>, <<"2">>)
    /\ LastverDown
    /\ adding = NotAdding

NextRace ==
    \/ \E h \in Handlers, p \in Phones, ev \in HookEvents : WebhookBegin(h, p, ev)
    \/ \E h \in Handlers, fatal \in BOOLEAN : Stamp(h, fatal)
    \/ \E h \in Handlers, fatal \in BOOLEAN : ClearAttempts(h, fatal)
    \/ \E h \in Handlers : LookupBegin(h)
    \/ \E h \in Handlers, fatal \in BOOLEAN : Lookup(h, fatal)

SpecRace == InitRace /\ [][NextRace]_vars

-----------------------------------------------------------------------------
(* The alert endpoint at 01:00 in Moscow, with and without a responder on duty *)

HandlerInstant == UseCaseStart + Hour
HandlerSchedules == {<<>>, <<Schedule(<<0, 30>>, <<1, 30>>, "+1")>>}

InitHandler ==
    /\ file = <<>>
    /\ fileState = "json"
    /\ perm = "rw"
    /\ successfulCalls = <<>>
    /\ callAttempts = <<>>
    /\ muteUntil = 0
    /\ schedules \in HandlerSchedules
    /\ now = HandlerInstant
    /\ localOffset = 0
    /\ last = Ran("init", NoNumber, NoNumber, Nil)
    /\ pending = <<>>
    /\ sent = EmptyBag
    /\ calls = <<>>
    /\ trig = NoTrigger
    /\ request = NoRequest
    /\ zoneinfo \in BOOLEAN
    /\ pc = Idle
    /\ bot = NewTelegramBot(<<"1">>, <<"2">>)
    /\ LastverDown
    /\ adding = NotAdding

NextHandler ==
    \/ \E body \in Bodies : HandleAlert(body)
    \/ \E resp \in CallResponses : Escalate(resp)

SpecHandler == InitHandler /\ [][NextHandler]_vars

-----------------------------------------------------------------------------
(* Properties of the schedule service, checked under Spec *)

\* A stored time of day in minutes after midnight
Minutes(s) == s[1] * 60 + s[2]

\* The hour and minute the clock shows in a zone, in minutes after midnight
MinuteOfDay(offset) == ((now + offset) \div 60) % (24 * 60)

\* Entry i of the schedule file holds the time of day tod strictly inside
Inside(i, tod) ==
    Minutes(file[i].StartTime) < tod /\ tod < Minutes(file[i].EndTime)

\* A success stamp of the number is less than one hour old
Suppressed(phoneNumber) ==
    /\ phoneNumber \in DOMAIN successfulCalls
    /\ now - successfulCalls[phoneNumber] < 3600

Resolved == last.op = "GetPhoneNumberByTime"

\* C4: GetPhoneNumberByTime matches an entry only when the hour and minute of
\* the clock are strictly after its start and strictly before its end.  A
\* number is returned only from an entry that holds the time strictly
\* inside; the first entry that does, if its number is not suppressed, is the
\* one returned; an entry whose start or end equals the time is passed over.
\* The loop of package app, run on the same list and time, does the same.
C4_StrictWindow ==
    LET tod == MinuteOfDay(localOffset)
        entries == 1..Len(file)
        app == AppScanByTime(file, 1, Format1504(now, localOffset))
    IN  /\ Resolved /\ last.err = Nil =>
               \E i \in entries : file[i].PhoneNumber = last.number /\ Inside(i, tod)
        /\ Resolved =>
               \A i \in entries :
                   /\ Inside(i, tod)
                   /\ ~Suppressed(file[i].PhoneNumber)
                   /\ \A j \in 1..(i - 1) : ~Inside(j, tod)
                   => last.err = Nil /\ last.number = file[i].PhoneNumber
        /\ Resolved /\ (\A i \in entries :
                            tod <= Minutes(file[i].StartTime) \/ tod >= Minutes(file[i].EndTime))
               => last.err = ErrNotFound /\ last.number = NoNumber
        /\ app # NoNumber =>
               \E i \in entries : file[i].PhoneNumber = app /\ Inside(i, tod)
        /\ \A i \in entries :
               Inside(i, tod) /\ (\A j \in 1..(i - 1) : ~Inside(j, tod))
               => app = file[i].PhoneNumber

\* C4 witness: the first entry starts at the very minute the clock shows and is
\* passed over, the second holds the time strictly inside and is returned.
C4_Witness ==
    /\ Resolved
    /\ Len(file) = 2
    /\ Minutes(file[1].StartTime) = MinuteOfDay(localOffset)
    /\ Minutes(file[1].EndTime) > MinuteOfDay(localOffset)
    /\ Inside(2, MinuteOfDay(localOffset))
    /\ file[1].PhoneNumber # file[2].PhoneNumber
    /\ last.number = file[2].PhoneNumber

\* C5: when two or more entries hold the current time inside their windows and
\* none of their numbers is suppressed, the number of the entry with the
\* lowest index is returned.
C5_FirstMatchWins ==
    LET tod == MinuteOfDay(localOffset)
        matching == {i \in 1..Len(file) : Inside(i, tod)}
    IN  /\ Resolved
        /\ Cardinality(matching) >= 2
        /\ \A i \in matching : ~Suppressed(file[i].PhoneNumber)
        => /\ last.err = Nil
           /\ \A i \in matching :
                  (\A j \in matching : i <= j) => last.number = file[i].PhoneNumber

\* C5 witness: two entries with different numbers both hold the current time
C5_Witness ==
    /\ Resolved
    /\ Len(file) = 2
    /\ Inside(1, MinuteOfDay(localOffset))
    /\ Inside(2, MinuteOfDay(localOffset))
    /\ file[1].PhoneNumber # file[2].PhoneNumber
    /\ successfulCalls = <<>>
    /\ last.number = file[1].PhoneNumber

\* C6: a number stamped successful less than one hour ago is never returned,
\* and the first entry that holds the current time and whose number is not
\* suppressed is returned whenever there is one.
C6_SuppressedSkipped ==
    LET tod == MinuteOfDay(localOffset)
        eligible == {i \in 1..Len(file) :
                        Inside(i, tod) /\ ~Suppressed(file[i].PhoneNumber)}
    IN  Resolved =>
           /\ last.err = Nil => ~Suppressed(last.number)
           /\ \A i \in eligible :
                  (\A j \in eligible : i <= j)
                  => last.err = Nil /\ last.number = file[i].PhoneNumber
           /\ eligible = {} => last.err = ErrNotFound

\* C6 witness: the first entry holds the current time but its number was
\* stamped within the hour, and the number of the second entry is returned.
C6_Witness ==
    /\ Resolved
    /\ Len(file) = 2
    /\ Inside(1, MinuteOfDay(localOffset))
    /\ Inside(2, MinuteOfDay(localOffset))
    /\ Suppressed(file[1].PhoneNumber)
    /\ last.number = file[2].PhoneNumber
    /\ last.number # file[1].PhoneNumber

\* C16: GetPhoneNumberByTime on a schedule that loads fails with "no phone
\* number found for the current time", and returns no number, exactly when no
\* entry holds the current time strictly inside its window or the number of
\* every entry that does was stamped successful less than one hour ago; in
\* every other case it returns the number of such an entry and no error.
C16_NotFoundExactly ==
    LET tod == MinuteOfDay(localOffset)
        matching == {i \in 1..Len(file) : Inside(i, tod)}
        open == {i \in matching : ~Suppressed(file[i].PhoneNumber)}
    IN  Resolved =>
           /\ (last.err = ErrNotFound) <=> (open = {})
           /\ (last.err = ErrNotFound) => last.number = NoNumber
           /\ open # {} =>
                  /\ last.err = Nil
                  /\ \E i \in open : last.number = file[i].PhoneNumber

\* C16 witness: two entries with different numbers hold the current time, both
\* numbers were stamped within the hour, and no responder is found
C16_Witness ==
    /\ Resolved
    /\ Len(file) = 2
    /\ Inside(1, MinuteOfDay(localOffset))
    /\ Inside(2, MinuteOfDay(localOffset))
    /\ file[1].PhoneNumber # file[2].PhoneNumber
    /\ Suppressed(file[1].PhoneNumber)
    /\ Suppressed(file[2].PhoneNumber)
    /\ last.err = ErrNotFound /\ last.number = NoNumber

NextResolved == last.op = "GetNextPhoneNumber"

\* The index of the first entry that holds the number, 0 when none does
FirstIndexOf(phoneNumber) ==
    LET holding == {i \in 1..Len(file) : file[i].PhoneNumber = phoneNumber}
    IN  IF holding = {} THEN 0 ELSE CHOOSE i \in holding : \A j \in holding : i <= j

\* C10: GetNextPhoneNumber(currentNumber) returns the number of the entry at
\* index i+1, i being the index of the (first) entry that holds currentNumber.
C10_NextIsFollowingEntry ==
    LET i == FirstIndexOf(last.arg)
    IN  /\ NextResolved /\ last.err = Nil =>
               i >= 1 /\ i + 1 <= Len(file) /\ last.number = file[i + 1].PhoneNumber
        /\ NextResolved /\ i >= 1 /\ i + 1 <= Len(file) =>
               last.err = Nil /\ last.number = file[i + 1].PhoneNumber

\* C10 witness: the number of the first of two entries is asked for, and the
\* different number of the second is returned.
C10_Witness ==
    /\ NextResolved
    /\ Len(file) = 2
    /\ last.arg = file[1].PhoneNumber
    /\ file[2].PhoneNumber # file[1].PhoneNumber
    /\ last.number = file[2].PhoneNumber


\* The outcome of asking GetNextPhoneNumber again with each number it
\* returns, at most k times, starting from phoneNumber
RECURSIVE Rotation(_, _)
Rotation(phoneNumber, k) ==
    IF k = 0
    THEN [number |-> phoneNumber, err |-> Nil]
    ELSE LET r == GetNextPhoneNumber(phoneNumber)
         IN  IF r.err # Nil THEN r ELSE Rotation(r.number, k - 1)

C11_ExhaustedAtEnd ==
    LET n == Len(file)
        holders == {i \in 1..n : file[i].PhoneNumber = last.arg}
    IN  NextResolved /\ (holders = {} \/ n \in holders)
        => last.err = ErrNoMore /\ last.number = NoNumber

\* A webhook that reported the call to the number as successful ran last
Marked(phoneNumber) ==
    /\ last.op = "HandleWebhook"
    /\ last.arg.HookEvent = "call_success"
    /\ last.arg.To = phoneNumber

\* C23: MarkCallSuccessful(N) stamps N with the current time, leaves N
\* without a retry count, returns no error, and changes neither the stamp or
\* the count of any other number nor muteUntil nor the schedule file.
C23_SuccessRecorded ==
    [][\A n \in Phones :
           Marked(n)' =>
               /\ DOMAIN successfulCalls' = DOMAIN successfulCalls \cup {n}
               /\ successfulCalls'[n] = now
               /\ \A k \in DOMAIN successfulCalls \ {n} :
                      successfulCalls'[k] = successfulCalls[k]
               /\ DOMAIN callAttempts' = DOMAIN callAttempts \ {n}
               /\ \A k \in DOMAIN callAttempts \ {n} : callAttempts'[k] = callAttempts[k]
               /\ last'.err = Nil
               /\ UNCHANGED <<muteUntil, file, fileState>>]_vars

\* C23 witness: +2 has just been stamped, and +1 keeps its older stamp
C23_Witness ==
    /\ Marked("+2")
    /\ DOMAIN successfulCalls = {"+1", "+2"}
    /\ successfulCalls["+2"] = now
    /\ successfulCalls["+1"] < now

\* The answer of the lookup that ran last respects the stamps as they are:
\* no number stamped less than an hour ago is returned, and the first entry
\* holding the time is returned when its stamp is an hour old or older
LookupIsLazy ==
    LET tod == MinuteOfDay(localOffset)
        matching == {i \in 1..Len(file) : Inside(i, tod)}
    IN  Resolved =>
           /\ \A n \in DOMAIN successfulCalls :
                  now - successfulCalls[n] < Hour => ~(last.err = Nil /\ last.number = n)
           /\ \A i \in matching :
                  /\ \A j \in matching : i <= j
                  /\ file[i].PhoneNumber \in DOMAIN successfulCalls
                  /\ now - successfulCalls[file[i].PhoneNumber] >= Hour
                  => last.err = Nil /\ last.number = file[i].PhoneNumber

\* C24: a success stamp is never deleted and changes only when the number is
\* stamped again, to the time of that moment; every lookup decides on the
\* stamps as they are: a number stamped at t is skipped at every time in
\* [t, t + 1 hour) and returned again from t + 1 hour on, no other operation
\* having run.
C24_StampKeptAndLazy ==
    [][/\ DOMAIN successfulCalls \subseteq DOMAIN successfulCalls'
       /\ \A n \in DOMAIN successfulCalls :
              \/ successfulCalls'[n] = successfulCalls[n]
              \/ successfulCalls'[n] = now /\ Marked(n)'
       /\ LookupIsLazy']_vars

\* C24 witness: the number of the first entry holding the time was stamped
\* exactly one hour ago, is still stamped, and is the one returned
C24_Witness ==
    /\ Resolved
    /\ Len(file) >= 1
    /\ Inside(1, MinuteOfDay(localOffset))
    /\ file[1].PhoneNumber \in DOMAIN successfulCalls
    /\ now - successfulCalls[file[1].PhoneNumber] = Hour
    /\ last.err = Nil /\ last.number = file[1].PhoneNumber

\* What GetPhoneNumberByTime returns on a server whose zone is `offset`
\* seconds east of UTC
ResolveIn(offset) == ScanByTime(Load.schedules, 1, Format1504(now, offset))

\* C26: GetPhoneNumberByTime reads the time of day in Moscow: at one instant,
\* with one schedule and the same stamps, servers in different zones get the
\* same answer, the one for Moscow time.
C26_MoscowTimeEverywhere ==
    /\ \A o \in LocalOffsets : ResolveIn(o) = ResolveIn(MSK)
    /\ Resolved => [number |-> last.number, err |-> last.err] = ResolveIn(MSK)

-----------------------------------------------------------------------------
(* Properties of windows over the day, checked under SpecWindows *)

\* Entry i of the schedule file starts before it ends
Forward(i) == Minutes(file[i].StartTime) < Minutes(file[i].EndTime)

\* C35: an entry whose start is not earlier than its end is accepted by
\* AddSchedule and then matched by GetPhoneNumberByTime at no time of day: the
\* window test fails for it at every instant, and a number is returned only
\* from an entry that starts before it ends.
C35_BackwardWindowNeverMatches ==
    /\ \A i \in DOMAIN file :
           ~Forward(i) => ~InWindow(file[i], Format1504(now, localOffset))
    /\ Resolved /\ last.err = Nil =>
           \E i \in DOMAIN file : Forward(i) /\ file[i].PhoneNumber = last.number
    /\ Resolved /\ (\A i \in DOMAIN file : ~Forward(i)) => last.err = ErrNotFound
    /\ last.op = "AddSchedule" => last.err = Nil /\ file[Len(file)] = last.arg

\* C35 witness: the only entry is 22:00 to 06:00, accepted as it is, and at
\* 22:30 no number is found
C35_Witness ==
    /\ Resolved
    /\ last.err = ErrNotFound
    /\ Len(file) = 1
    /\ file[1].StartTime = <<22, 0>> /\ file[1].EndTime = <<6, 0>>
    /\ Format1504(now, localOffset) = <<22, 30>>

-----------------------------------------------------------------------------
(* Properties of the webhook, checked under SpecWebhook *)

\* C33: a webhook that reports a successful call to N stamps N itself with
\* the current time; a webhook that reports anything else changes neither the
\* stamps nor the retry counts; and a lookup returns no number stamped within
\* the last hour.
C33_WebhookMarksItsNumber ==
    [][/\ last'.op = "HandleWebhook" /\ last'.arg.HookEvent = "call_success" =>
              /\ last'.arg.To \in DOMAIN successfulCalls'
              /\ successfulCalls'[last'.arg.To] = now
       /\ last'.op = "HandleWebhook" /\ last'.arg.HookEvent # "call_success" =>
              UNCHANGED <<successfulCalls, callAttempts>>
       /\ Resolved' /\ last'.err = Nil /\ last'.number \in DOMAIN successfulCalls' =>
              now' - successfulCalls'[last'.number] >= Hour]_vars

-----------------------------------------------------------------------------
(* Properties of the mute, checked under SpecMute *)

\* The length of a mute
MuteDuration == 2 * Hour

\* C25: IsMuted is true exactly when now < muteUntil: false before the first
\* mute, true from the instant t of a mute up to t + 2 hours, that instant
\* excluded, and false from then on until the next mute.
C25_MutedExactlyUntil ==
    /\ muteUntil = 0 => ~IsMuted
    /\ muteUntil # 0 =>
           /\ now >= muteUntil - MuteDuration
           /\ IsMuted <=> now - (muteUntil - MuteDuration) < MuteDuration
    /\ last.op = "SetMute" => IsMuted /\ muteUntil = now + MuteDuration

\* C25 witness: two hours to the second after a mute, the mute is over
C25_Witness ==
    /\ muteUntil # 0
    /\ now = muteUntil
    /\ ~IsMuted
    /\ last.op = "Tick"

-----------------------------------------------------------------------------
(* Properties of TelegramBot, checked under SpecTelegram and SpecSend *)

C28_ChatBySeverity ==
    last.op = "GetChatID" =>
        /\ last.arg = "Warning" =>
               [n |-> last.number, err |-> last.err] = ParseInt(bot.warningChatID)
        /\ last.arg = "Critical" =>
               [n |-> last.number, err |-> last.err] = ParseInt(bot.criticalChatID)
        /\ last.arg \notin {"Warning", "Critical"} => last.err # Nil /\ last.number = 0

\* C28 witness: with -1 configured as the critical chat, "Critical" is answered -1
C28_Witness ==
    /\ last.op = "GetChatID"
    /\ last.arg = "Critical"
    /\ bot.criticalChatID = <<"-", "1">>
    /\ last.number = 0 - 1
    /\ last.err = Nil

-----------------------------------------------------------------------------
(* Properties of the queued mode, checked under SpecLastver *)

Requests == 1..MaxRequests

InChannel(id) == \E i \in DOMAIN alertChannel : alertChannel[i].id = id

\* the workers that hold the batch of a request, received and not yet processed
Holding(id) == {w \in Workers : worker[w].at = "process" /\ worker[w].msg.id = id}

\* the processAlerts calls made for the batch of a request
Processings(id) == {i \in DOMAIN processed : processed[i].id = id}

\* how many times the batch of a request is in the channel
Queued(id) == Cardinality({i \in DOMAIN alertChannel : alertChannel[i].id = id})

\* C30: a batch whose request was answered 200 is in the channel, or with one
\* worker, or processed once, and never two of these; no batch is processed
\* twice; the channel never holds more than its capacity; and, the workers
\* being run fairly, every batch put in the channel is processed in the end.
C30_QueuedOnceProcessedOnce ==
    /\ [](/\ \A id \in DOMAIN responses :
                /\ responses[id] = 200 =>
                       Queued(id) + Cardinality(Holding(id)) + Cardinality(Processings(id)) = 1
                /\ Cardinality(Holding(id)) + Cardinality(Processings(id)) <= 1
                /\ responses[id] = 400 =>
                       Queued(id) + Cardinality(Holding(id)) + Cardinality(Processings(id)) = 0
          /\ Len(alertChannel) <= ChannelCapacity)
    /\ \A id \in Requests : InChannel(id) ~> (Processings(id) # {})

\* C30 witness: a batch answered 200 has been processed while the channel is
\* full and a handler waits to put its batch in
C30_Witness ==
    /\ Len(alertChannel) = ChannelCapacity
    /\ \E h \in Handlers : serving[h].at = "send"
    /\ \E i \in DOMAIN processed : responses[processed[i].id] = 200

\* The chunks of a split put together again
RECURSIVE Concat(_)
Concat(chunks) == IF chunks = <<>> THEN <<>> ELSE Head(chunks) \o Concat(Tail(chunks))

\* C36: for every message, splitLongMessage returns chunks that, put together
\* in order, are the message; no chunk is longer than maxMsgLength; and every
\* chunk but the last holds at least one byte, so that every turn of the loop
\* shortens the text, also when the text left begins with a line feed.
C36_SplitLosesNothing ==
    last.op = "splitLongMessage" =>
        LET chunks == last.number
        IN  /\ chunks # <<>>
            /\ Concat(chunks) = last.arg
            /\ \A i \in DOMAIN chunks : Len(chunks[i]) <= maxMsgLength
            /\ \A i \in 1..(Len(chunks) - 1) : Len(chunks[i]) >= 1

\* C36 witness: a long message is cut at a line feed, the text left begins
\* with that line feed and is cut again
C36_Witness ==
    /\ last.op = "splitLongMessage"
    /\ Len(last.number) >= 3
    /\ last.number[2][1] = "\n"
    /\ Len(last.number[1]) < maxMsgLength
    /\ Concat(last.number) = last.arg

-----------------------------------------------------------------------------
(* Properties of the schedule store, checked under SpecStore *)

Added == last.op = "AddSchedule"

\* The text is the time of day of a 24-hour clock
ValidTimeOfDay(s) == s[1] >= 0 /\ s[1] <= 23 /\ s[2] >= 0 /\ s[2] <= 59

\* The schedule file is there and cannot be opened, or does not hold JSON
StoreBroken ==
    fileState # "absent" /\ (perm \in {"w", "none"} \/ fileState \in {"empty", "garbage"})

\* C32: in a deployment that starts without a schedule file and may read and
\* write it, once the repository is constructed the first AddSchedule with
\* valid times succeeds and leaves a schedule of exactly that one entry, and a
\* lookup before it reports that no number was found, not an error of loading.
C32_FreshStoreWorks ==
    [][perm = "rw" /\ last.op # "init" /\ file = <<>> =>
           /\ /\ last'.op = "AddSchedule"
              /\ ValidTimeOfDay(last'.arg.StartTime)
              /\ ValidTimeOfDay(last'.arg.EndTime)
              => last'.err = Nil /\ fileState' = "json" /\ file' = <<last'.arg>>
           /\ Resolved' => last'.err = ErrNotFound]_vars

\* The entries of a schedule that are equal to the given one
Copies(scheds, schedule) == Cardinality({i \in DOMAIN scheds : scheds[i] = schedule})

\* C31: when several AddSchedule calls with valid times have run at once and
\* all returned without error, the file holds what it held before, in the
\* same order, and after it the entry of every one of the calls.
C31_NoUpdateLost ==
    (\A h \in Handlers : adding[h].at = "done" /\ adding[h].err = Nil) =>
        /\ Len(file) = Len(ScheduleBefore) + Cardinality(Handlers)
        /\ SubSeq(file, 1, Len(ScheduleBefore)) = ScheduleBefore
        /\ \A h \in Handlers :
               Copies(file, adding[h].newSchedule)
                   >= Copies(ScheduleBefore, adding[h].newSchedule) + 1

\* C12: every successful AddSchedule with valid times appends exactly one entry
\* at the end: the load after it returns what the load before it returned,
\* unchanged and in the same order, followed by the new entry.
C12_AppendPreservesOrder ==
    [][last'.op = "AddSchedule" /\ last'.err = Nil
       /\ ValidTimeOfDay(last'.arg.StartTime) /\ ValidTimeOfDay(last'.arg.EndTime)
       => /\ Load'.err = Nil
          /\ Len(Load'.schedules) = Len(Load.schedules) + 1
          /\ \A i \in 1..Len(Load.schedules) : Load'.schedules[i] = Load.schedules[i]
          /\ Load'.schedules[Len(Load.schedules) + 1] = last'.arg]_vars

\* C12 witness: a second, different entry has been added after the first
C12_Witness ==
    /\ Added /\ last.err = Nil
    /\ Len(Load.schedules) = 2
    /\ Load.schedules[2] = last.arg
    /\ Load.schedules[1] # last.arg

\* C13: AddSchedule with a start or an end that is not a time of day of the
\* 24-hour clock returns "invalid time format, use HH:MM" and leaves the
\* schedule file as it was, whatever state the file is in.
C13_InvalidTimeRejected ==
    [][last'.op = "AddSchedule"
       /\ (~ValidTimeOfDay(last'.arg.StartTime) \/ ~ValidTimeOfDay(last'.arg.EndTime))
       => last'.err = ErrInvalidTime /\ UNCHANGED <<file, fileState>>]_vars

\* C13 witness: an entry with a valid start and an end of 00:60 was refused
\* while the file held an entry
C13_Witness ==
    /\ Added /\ last.err = ErrInvalidTime
    /\ ValidTimeOfDay(last.arg.StartTime) /\ ~ValidTimeOfDay(last.arg.EndTime)
    /\ Len(file) = 1

\* C14: when the schedule file cannot be loaded, AddSchedule with valid times
\* returns the load error and leaves the file as it was, and
\* GetPhoneNumberByTime and GetNextPhoneNumber return the load error and no
\* number; when the file loads and cannot be written, AddSchedule returns the
\* write error.
C14_StoreErrorSurfaced ==
    [][/\ last'.op = "AddSchedule" /\ StoreBroken
          /\ ValidTimeOfDay(last'.arg.StartTime) /\ ValidTimeOfDay(last'.arg.EndTime)
          => /\ last'.err \in {ErrPermission, ErrUnexpectedEnd, ErrInvalidCharacter}
             /\ UNCHANGED <<file, fileState>>
       /\ last'.op = "AddSchedule" /\ ~StoreBroken /\ perm \in {"r", "none"}
          /\ ValidTimeOfDay(last'.arg.StartTime) /\ ValidTimeOfDay(last'.arg.EndTime)
          => last'.err = ErrPermission
       /\ last'.op \in {"GetPhoneNumberByTime", "GetNextPhoneNumber"} /\ StoreBroken
          => /\ last'.err \in {ErrPermission, ErrUnexpectedEnd, ErrInvalidCharacter}
             /\ last'.number = NoNumber]_vars

\* C14 witness: AddSchedule with valid times came back with the error of
\* decoding a file that does not hold JSON
C14_Witness ==
    /\ Added /\ fileState = "garbage" /\ perm = "rw"
    /\ ValidTimeOfDay(last.arg.StartTime) /\ ValidTimeOfDay(last.arg.EndTime)
    /\ last.err = ErrInvalidCharacter

\* C15: Load returns the empty schedule and no error when the file does not
\* exist, and an error only when the file exists and cannot be opened or does
\* not hold JSON; so GetPhoneNumberByTime on a missing file finds no responder.
C15_AbsentLoadsEmpty ==
    /\ fileState = "absent" => Load.schedules = <<>> /\ Load.err = Nil
    /\ Load.err # Nil => StoreBroken
    /\ Resolved /\ fileState = "absent" => last.err = ErrNotFound

\* C15 witness: the responder was asked for while the file did not exist
C15_Witness ==
    /\ Resolved /\ fileState = "absent"
    /\ last.err = ErrNotFound /\ last.number = NoNumber

-----------------------------------------------------------------------------
(* Properties of the alert use case, checked under SpecUseCase *)

Escalated == last.op = "Escalate" /\ trig.ran

\* How often the escalation handled last dialed the number
Dialed(number) == Cardinality({k \in DOMAIN trig.dials : trig.dials[k] = number})

\* C2: within one escalation a responder whose call attempts all fail is
\* dialed exactly 3 times before the controller moves on.
C2_ThreeAttempts ==
    Escalated /\ trig.resp # "200" /\ trig.number # NoNumber => Dialed(trig.number) = 3

\* C3: while muted (now < muteUntil) an escalation places no outbound call.
C3_MutedPlacesNoCall ==
    Escalated /\ now < muteUntil => trig.dials = <<>>

\* C7: when the call to number N is acknowledged, N carries a success stamp
\* of this instant right after the escalation, so that N is suppressed.
C7_SuccessStamped ==
    Escalated /\ trig.resp = "200" /\ trig.number # NoNumber =>
        /\ trig.number \in DOMAIN successfulCalls
        /\ successfulCalls[trig.number] = now

\* C8: when no responder is found for the current time no call request is
\* submitted: the call capability never gets an empty number.
C8_NoCallWithoutNumber ==
    /\ Escalated /\ trig.number = NoNumber => trig.dials = <<>>
    /\ \A k \in DOMAIN calls : calls[k] # NoNumber

\* C9: every escalation that ends in failure, whether the transport failed or
\* no responder was found, logs an error; only a muted escalation places no
\* call and reports nothing.
C9_FailureReported ==
    /\ Escalated /\ (trig.resp # "200" \/ trig.number = NoNumber) => trig.logged
    /\ Escalated /\ trig.dials = <<>> /\ ~trig.logged => trig.muted

-----------------------------------------------------------------------------
(* Properties of the alert endpoint, checked under SpecHandler *)

\* The request handled last was decoded and handed to SendAlerts
Accepted == request.body.kind = "json"

\* The positions of the batch whose alert has the status and the severity
Positions(alerts, status, severity) ==
    {i \in 1..Len(alerts) : alerts[i].Status = status /\ alerts[i].Severity = severity}

\* C17: one batch starts the escalation exactly once for each of its alerts
\* that is firing and Critical, one for each occurrence, and for no other
\* alert: the escalations still to run and those that ran (one call request
\* each) add up to the number of such alerts.
C17_OneEscalationPerCriticalFiring ==
    Accepted =>
        Len(pending) + Len(calls)
            = Cardinality(Positions(request.body.alerts, "firing", "Critical"))

\* C17 witness: a batch held the same firing Critical alert twice and, with it,
\* nothing else; both escalations ran
C17_Witness ==
    /\ Accepted
    /\ Len(request.body.alerts) = 2
    /\ request.body.alerts[1] = request.body.alerts[2]
    /\ request.body.alerts[1].Status = "firing"
    /\ request.body.alerts[1].Severity = "Critical"
    /\ pending = <<>>
    /\ Len(calls) = 2

\* The alerts of the batch with the label (or without one, for NoAlertGroup)
\* and the status, in the order of the batch
Subset(alerts, groupKey, status) ==
    LET Member(a) ==
            /\ a.Status = status
            /\ \/ a.AlertGroup = groupKey /\ groupKey # ""
               \/ a.AlertGroup = "" /\ groupKey = "NoAlertGroup"
    IN  SelectSeq(alerts, Member)

\* The group keys of a batch
KeysOf(alerts) ==
    {IF alerts[i].AlertGroup = "" THEN "NoAlertGroup" ELSE alerts[i].AlertGroup :
        i \in 1..Len(alerts)}

\* The sum of the lengths of the sequences of a map
RECURSIVE TotalLen(_, _)
TotalLen(m, keys) ==
    IF keys = {} THEN 0
    ELSE LET k == CHOOSE g \in keys : TRUE
         IN  Len(m[k]) + TotalLen(m, keys \ {k})

\* C18: grouping partitions the batch.  For firing and for resolved, the map
\* has a key for exactly the group keys that have an alert of that status, and
\* under each key the alerts of that key and status in the order of the batch;
\* the subsets together hold as many alerts as the batch has firing and
\* resolved ones, so none is in two subsets and one of another status in none.
C18_GroupingPartitions ==
    Accepted =>
        LET alerts == request.body.alerts
            firing == ByStatus(alerts, "firing")
            resolved == ByStatus(alerts, "resolved")
        IN  /\ \A status \in {"firing", "resolved"} :
                   LET m == ByStatus(alerts, status)
                   IN  /\ DOMAIN m = {k \in KeysOf(alerts) : Subset(alerts, k, status) # <<>>}
                       /\ \A k \in DOMAIN m : m[k] = Subset(alerts, k, status)
            /\ TotalLen(firing, DOMAIN firing) + TotalLen(resolved, DOMAIN resolved)
                   = Cardinality({i \in 1..Len(alerts) :
                                     alerts[i].Status \in {"firing", "resolved"}})

\* C18 witness: a firing and a resolved alert without a label, in one batch,
\* land in the two subsets of NoAlertGroup
C18_Witness ==
    /\ Accepted
    /\ Len(request.body.alerts) = 2
    /\ request.body.alerts[1].AlertGroup = "" /\ request.body.alerts[1].Status = "firing"
    /\ request.body.alerts[2].AlertGroup = "" /\ request.body.alerts[2].Status = "resolved"
    /\ ByStatus(request.body.alerts, "firing")["NoAlertGroup"] = <<request.body.alerts[1]>>
    /\ ByStatus(request.body.alerts, "resolved")["NoAlertGroup"] = <<request.body.alerts[2]>>

\* The notification channel of a severity
ChannelOf(severity) ==
    ParseInt(IF severity = "Warning" THEN bot.warningChatID ELSE bot.criticalChatID).n

\* The non-empty subsets of a batch, as <<group key, status>>
SubsetsOf(alerts) ==
    {ks \in KeysOf(alerts) \X {"firing", "resolved"} : Subset(alerts, ks[1], ks[2]) # <<>>}

C20_BadRequestDoesNothing ==
    [][/\ last'.op = "HandleAlert" /\ request'.body.kind # "json"
          => /\ request'.status = 400
             /\ UNCHANGED <<schedules, pending, sent, calls, trig>>
             /\ UNCHANGED scheduleVars
       /\ request' # request /\ request'.body.kind # "json" => last'.op = "HandleAlert"
       /\ request'.body.kind = "json"
          => request'.status # 400 /\ (pending' = <<>> => request'.status = 200)]_vars

\* C20 witness: a body that is not JSON was answered with 400 and the
\* messages and calls of the batch before it stayed as they were
C20_Witness ==
    /\ last.op = "HandleAlert"
    /\ request.body.kind = "garbage"
    /\ request.status = 400
    /\ BagCardinality(sent) > 0
    /\ Len(calls) > 0

\* C21: the 200 of a request is written only when its batch is done: the
\* messages of every subset have been sent and a call has been requested for
\* every firing Critical alert; and once it is written, nothing is sent and
\* no call is placed until the next request comes in.
C21_AnsweredAfterProcessing ==
    [][/\ request'.status = 200 =>
              /\ pending' = <<>>
              /\ Len(calls') = Cardinality(Positions(request'.body.alerts, "firing", "Critical"))
              /\ sent' = sendGroupedAlerts(ByStatus(request'.body.alerts, "firing"))
                             (+) sendGroupedAlerts(ByStatus(request'.body.alerts, "resolved"))
       /\ request.status = 200 /\ last'.op \notin {"SendAlerts", "HandleAlert"}
              => UNCHANGED <<sent, calls, pending>>]_vars

\* C21 witness: the 200 follows two call requests and a message
C21_Witness ==
    /\ request.status = 200
    /\ Len(calls) = 2
    /\ BagCardinality(sent) >= 1
    /\ last.op = "Escalate"

-----------------------------------------------------------------------------
(* Properties of requests served at the same time, checked under SpecRace *)

\* The accesses of each piece of state that ScheduleService shares
AccessesOf ==
    [successfulCalls |-> {"stamp", "lookup"}, callAttempts |-> {"clear"}]

\* C22: the accesses of the shared state exclude one another: in no reachable
\* state are two goroutines inside a read or a write of the same map at the
\* same time.
C22_MutualExclusion ==
    \A piece \in DOMAIN AccessesOf :
        \A g, h \in Handlers :
            pc[g].at \in AccessesOf[piece] /\ pc[h].at \in AccessesOf[piece] => g = h

====
